---- MODULE Spec2Model ----
(***************************************************************************)
(* kometa-ui, in three parts.  Log streaming (websocket/log-stream.ts):    *)
(* the file watcher, the position cursor filePosition, the readers         *)
(* readLastLines / readNewLines and the fan-out to the 'logs' room.        *)
(* ConfigService: save, restore and the backups of config.yml.             *)
(* LogService.getLastRun: the last run that meta.log tells of.             *)
(*                                                                         *)
(* Every handler is an async function.  It is cut at its awaits: one       *)
(* action per synchronous stretch.  An awaited file operation takes its    *)
(* result from the file as it is when the await resumes.  The log file     *)
(* belongs to an external writer, which appends bytes and truncates the    *)
(* file between any two stretches.                                         *)
(***************************************************************************)
EXTENDS Integers, Sequences, FiniteSets, Bags, TLC

(***************************************************************************)
(* Bounds of the model.                                                    *)
(***************************************************************************)
\* bytes the external writer appends in one behaviour
MaxWrites == 3
\* change handlers in flight at the same time
MaxInFlight == 1
\* subscribe:logs handlers in flight at the same time
MaxJoining == 1
\* the clients of the dashboard
Clients == {"c1", "c2"}

(***************************************************************************)
(* Program constants.                                                      *)
(***************************************************************************)
\* readLastLines(logPath, 200)
SnapshotCount == 200

\* the newline byte; every other byte of the file is the index (1, 2, ...)
\* of the write that appended it, so that the bytes of a behaviour differ
NL == 0

VARIABLES
    file,               \* bytes of meta.log, in order
    written,            \* number of bytes appended so far
    dirty,              \* the poller has a change of the file to report
    filePosition,       \* let filePosition = 0
    subscribedSockets,  \* const subscribedSockets = new Set<string>()
    room,               \* members of the socket.io room 'logs'
    sock,               \* per client: "open" while its socket is connected,
                        \* else "closed"
    changes,            \* bag of the change handlers in flight
    joins,              \* per client: its subscribe:logs handler in flight
    primed,             \* the cursor was assigned by a join or a change handler
    hist,               \* per client that shows the logs: the lines that
                        \* its useLogStream listeners were handed
    inbox,              \* per client that records them: the logs:new and
                        \* logs:rotated events that reached it, in order,
                        \* since the members of the room last changed
    last,               \* the stretch that ran last, and what it emitted
    configYml,          \* content of config.yml (this.configPath)
    tempFile,           \* content of config.yml.tmp (tempPath)
    backupDir,          \* the files of backups/: creation time -> content
    now,                \* the time of the newest backup name, in ms
    quota,              \* config requests that may still arrive
    requests,           \* per request handler of the config routes: the
                        \* save or restore it runs
    metaLog,            \* the lines of logs/meta.log that getLastRun reads
    lastRun,            \* what getLastRun returned
    tailFile,           \* a log file that a tail read is asked of
    tailCount,          \* the count the tail read is asked with
    tailLines,          \* what the tail reads returned
    document,           \* what yaml.load makes of a content to validate
    validation,         \* what validate returned
    container,          \* the kometa container as the runtime holds it
    logAge,             \* ms since meta.log was last modified
    call                \* the request to /api/docker in flight: the
                        \* runtime calls it made, its result, its answer

logVars == <<file, written, dirty, filePosition, subscribedSockets, room,
             sock, changes, joins, primed, hist, inbox, last>>

configVars == <<configYml, tempFile, backupDir, now, quota, requests>>

trackerVars == <<metaLog, lastRun>>

tailVars == <<tailFile, tailCount, tailLines>>

validateVars == <<document, validation>>

dockerVars == <<container, logAge, call>>

asideVars == <<tailVars, validateVars, dockerVars>>

vars == <<logVars, configVars, trackerVars, asideVars>>

(***************************************************************************)
(* Sequences.                                                              *)
(***************************************************************************)
Max(a, b) == IF a >= b THEN a ELSE b

Range(s) == {s[i] : i \in 1..Len(s)}

\* the bytes of f at offsets from, from+1, ... (none when from is at or
\* beyond the end): createReadStream(filePath, {start: from})
BytesFrom(f, from) == SubSeq(f, from + 1, Len(f))

\* Array.prototype.slice(-count): the last count elements; -0 is 0, so a
\* count of 0 yields the whole array
SliceLast(s, count) ==
    IF count = 0 THEN s ELSE SubSeq(s, Max(1, Len(s) - count + 1), Len(s))

(***************************************************************************)
(* readline: for await (const line of rl).  The input is cut at every      *)
(* newline; what follows the last newline is emitted as a last line when   *)
(* it is not empty.                                                        *)
(***************************************************************************)
RECURSIVE SplitAcc(_, _)
SplitAcc(bytes, cur) ==
    IF bytes = <<>>
    THEN IF cur = <<>> THEN <<>> ELSE <<cur>>
    ELSE IF Head(bytes) = NL
         THEN <<cur>> \o SplitAcc(Tail(bytes), <<>>)
         ELSE SplitAcc(Tail(bytes), Append(cur, Head(bytes)))

SplitLines(bytes) == SplitAcc(bytes, <<>>)

\* line.trim() is truthy: the line holds a byte that is not white space
NotBlank(line) == \E i \in 1..Len(line) : line[i] # NL

\* readLastLines(filePath, count)
readLastLines(f, count) == SliceLast(SplitLines(f), count)

\* readNewLines(filePath, fromPosition)
readNewLines(f, fromPosition) ==
    SelectSeq(SplitLines(BytesFrom(f, fromPosition)), NotBlank)

(***************************************************************************)
(* The conditions and assignments of watcher.on('change').                 *)
(***************************************************************************)
\* if (subscribedSockets.size === 0) return;
NoSubscribers(subs) == Cardinality(subs) = 0

\* a rotation test that takes an emptied file for no rotation
IsRotationOfNonEmpty(size, pos) == size < pos /\ size > 0

\* if (stats.size < filePosition)
IsRotation(size, pos) == size < pos

\* a rotation that moves the cursor to the new size instead of to 0
RotatedToSize(size) == size

\* filePosition = 0;
RotatedPosition(size) == 0

\* a removal that empties the set when the id is not in it
DeletedOrCleared(set, id) == IF id \in set THEN set \ {id} ELSE {}

\* subscribedSockets.delete(socket.id); socket.leave('logs')
Deleted(set, id) == set \ {id}

\* a growth test that also takes an unchanged size for growth
HasGrownOrSame(size, pos) == size >= pos

\* if (stats.size > filePosition)
HasGrown(size, pos) == size > pos

(***************************************************************************)
(* Events.  io.to('logs').emit reaches the members of the room;            *)
(* socket.emit reaches the socket while its connection is open.            *)
(***************************************************************************)
Event(type, lines, to) == [type |-> type, lines |-> lines, to |-> to]

\* a fan-out that stops after the first member of the room
ToOneOfRoom(type, lines) ==
    Event(type, lines, IF room = {} THEN {} ELSE {CHOOSE c \in room : TRUE})

\* io.to('logs').emit(type, {lines})
ToRoom(type, lines) == Event(type, lines, room)

ToSocket(c, type, lines) ==
    Event(type, lines, IF sock[c] = "open" THEN {c} ELSE {})

\* a broadcast that reaches the members of the room only
ToRoomOnly(type) == Event(type, <<>>, room)

\* io.emit(type, status): to every connected socket
ToAll(type) == Event(type, <<>>, {c \in DOMAIN sock : sock[c] = "open"})

(***************************************************************************)
(* Records of the model.                                                   *)
(***************************************************************************)
\* what the listeners of a client (useLogStream) were handed: got is the
\* set of the lines of its logs:initial and logs:new events since its last
\* subscribe:logs and its last logs:rotated, size the cursor that the join
\* set when its logs:initial arrived (-1 while there was none); the record
\* is dropped when the client unsubscribes or disconnects
NoHist == [size |-> -1, got |-> {}]

\* a change handler in flight: awaiting fs.stat (pc = "stat") or awaiting
\* readNewLines(logPath, from) with stats.size = size (pc = "read");
\* rotated tells that this invocation emitted logs:rotated
AtStat == [pc |-> "stat", size |-> 0, from |-> 0, rotated |-> FALSE]

AtRead(size, from, rotated) ==
    [pc |-> "read", size |-> size, from |-> from, rotated |-> rotated]

\* a subscribe:logs handler: not running, awaiting readLastLines, or
\* awaiting fs.stat with the lines read
NoJoin == [pc |-> "idle", lines |-> <<>>]

\* the stretch that ran last: its name, the file size its invocation
\* observed, the cursor it found (for "change:read": the offset it read
\* from), whether the cursor had been assigned before, whether its
\* invocation emitted logs:rotated, what the invocation awaits next
\* ("done" when it has returned), and the events the stretch emitted
Step(op, size, pos, rotated, next, events) ==
    [op |-> op, size |-> size, pos |-> pos, primed |-> primed,
     rotated |-> rotated, next |-> next, events |-> events,
     who |-> "", subs |-> {}, members |-> {}]

\* a stretch that observes no file size and emits nothing
Quiet ==
    [op |-> "quiet", size |-> -1, pos |-> -1, primed |-> FALSE,
     rotated |-> FALSE, next |-> "done", events |-> <<>>,
     who |-> "", subs |-> {}, members |-> {}]

\* the handler of unsubscribe:logs or of disconnect has run for client c:
\* the cursor, the subscriber set and the members of the room that it found
Leave(op, c) ==
    [Quiet EXCEPT !.op = op, !.pos = filePosition, !.who = c,
                  !.subs = subscribedSockets, !.members = room]

\* the records after one event has reached its receivers: the lines of
\* logs:initial and of logs:new are added, logs:rotated is setLogs([])
Received(h, ev, size) ==
    [c \in DOMAIN h |->
        IF c \notin ev.to THEN h[c]
        ELSE IF ev.type = "logs:initial"
             THEN [size |-> size, got |-> h[c].got \cup Range(ev.lines)]
        ELSE IF ev.type = "logs:new"
             THEN [h[c] EXCEPT !.got = @ \cup Range(ev.lines)]
        ELSE [h[c] EXCEPT !.got = {}]]

\* the records after client c has dropped its own
Dropped(h, c) == [d \in DOMAIN h |-> IF d = c THEN NoHist ELSE h[d]]

\* the event sequences after the events evs, in order, have reached their
\* receivers: socket.on('logs:new'), socket.on('logs:rotated')
RECURSIVE Delivered(_, _)
Delivered(q, evs) ==
    IF evs = <<>> THEN q
    ELSE Delivered([c \in DOMAIN q |->
                       IF c \in Head(evs).to
                       THEN Append(q[c], [type |-> Head(evs).type,
                                          lines |-> Head(evs).lines])
                       ELSE q[c]],
                   Tail(evs))

\* the event sequences after a handler that may have changed who is in
\* the room: they start again when it has
Restarted(q, changed) ==
    [d \in DOMAIN q |-> IF changed THEN <<>> ELSE q[d]]

(***************************************************************************)
(* The state after setupLogStreaming(io, kometaConfigPath) has returned,   *)
(* for the clients cs, of which those in vs show the logs.                 *)
(***************************************************************************)
InitOf(cs, vs) ==
    /\ file = <<>>
    /\ written = 0
    /\ dirty = FALSE
    /\ filePosition = 0
    /\ subscribedSockets = {}
    /\ room = {}
    /\ sock = [c \in cs |-> "closed"]
    /\ changes = EmptyBag
    /\ joins = [c \in cs |-> NoJoin]
    /\ primed = FALSE
    /\ hist = [c \in vs |-> NoHist]
    /\ last = Quiet

(***************************************************************************)
(* The external writer of meta.log.                                        *)
(***************************************************************************)
AppendByte ==
    /\ written < MaxWrites
    /\ \E b \in {NL, written + 1} : file' = Append(file, b)
    /\ written' = written + 1
    /\ dirty' = TRUE
    /\ last' = Quiet
    /\ UNCHANGED <<filePosition, subscribedSockets, room, sock, changes,
                   joins, primed, hist, inbox>>
    /\ UNCHANGED <<configVars, trackerVars, asideVars>>

Truncate ==
    /\ file # <<>>
    /\ file' = <<>>
    /\ dirty' = TRUE
    /\ last' = Quiet
    /\ UNCHANGED <<written, filePosition, subscribedSockets, room, sock,
                   changes, joins, primed, hist, inbox>>
    /\ UNCHANGED <<configVars, trackerVars, asideVars>>

(***************************************************************************)
(* watcher.on('change', async () => {...})                                 *)
(***************************************************************************)
\* the poller reports a change: the handler starts, and returns at once
\* when nobody is subscribed, else awaits fs.stat(logPath)
Change ==
    /\ dirty
    /\ BagCardinality(changes) < MaxInFlight
    /\ dirty' = FALSE
    /\ changes' = IF NoSubscribers(subscribedSockets)
                  THEN changes
                  ELSE changes (+) SetToBag({AtStat})
    /\ last' = Step("change", -1, filePosition, FALSE,
                     IF NoSubscribers(subscribedSockets)
                     THEN "done" ELSE "stat", <<>>)
    /\ UNCHANGED <<file, written, filePosition, subscribedSockets, room,
                   sock, joins, primed, hist, inbox>>
    /\ UNCHANGED <<configVars, trackerVars, asideVars>>

\* fs.stat resolves: the rotation test, the growth test, and the call of
\* readNewLines(logPath, filePosition) with the cursor of that moment
ChangeStat(h) ==
    /\ h \in BagToSet(changes)
    /\ h.pc = "stat"
    /\ LET size == Len(file)
           rot  == IsRotation(size, filePosition)
           pos  == IF rot THEN RotatedPosition(size) ELSE filePosition
           evs  == IF rot THEN <<ToRoom("logs:rotated", <<>>)>> ELSE <<>>
           rest == changes (-) SetToBag({h})
       IN  /\ filePosition' = pos
           /\ changes' = IF HasGrown(size, pos)
                         THEN rest (+) SetToBag({AtRead(size, pos, rot)})
                         ELSE rest
           /\ primed' = (primed \/ rot)
           /\ hist' = IF rot THEN Received(hist, evs[1], size) ELSE hist
           /\ inbox' = Delivered(inbox, evs)
           /\ last' = Step("change:stat", size, filePosition, rot,
                           IF HasGrown(size, pos) THEN "read" ELSE "done",
                           evs)
    /\ UNCHANGED <<file, written, dirty, subscribedSockets, room, sock,
                   joins>>
    /\ UNCHANGED <<configVars, trackerVars, asideVars>>

\* fs.stat rejects (the file is missing or cannot be read at that moment):
\* the catch logs the error and the handler returns
ChangeStatFails(h) ==
    /\ h \in BagToSet(changes)
    /\ h.pc = "stat"
    /\ changes' = changes (-) SetToBag({h})
    /\ last' = Step("change:stat:failed", -1, filePosition, FALSE, "done",
                     <<>>)
    /\ UNCHANGED <<file, written, dirty, filePosition, subscribedSockets,
                   room, sock, joins, primed, hist, inbox>>
    /\ UNCHANGED <<configVars, trackerVars, asideVars>>

\* readNewLines resolves: filePosition = stats.size, and logs:new when
\* lines were read
ChangeRead(h) ==
    /\ h \in BagToSet(changes)
    /\ h.pc = "read"
    /\ LET newLines == readNewLines(file, h.from)
           evs == IF Len(newLines) > 0
                  THEN <<ToRoom("logs:new", newLines)>>
                  ELSE <<>>
       IN  /\ filePosition' = h.size
           /\ hist' = IF Len(evs) > 0
                      THEN Received(hist, evs[1], h.size)
                      ELSE hist
           /\ inbox' = Delivered(inbox, evs)
           /\ last' = Step("change:read", h.size, h.from, h.rotated,
                           "done", evs)
    /\ changes' = changes (-) SetToBag({h})
    /\ primed' = TRUE
    /\ UNCHANGED <<file, written, dirty, subscribedSockets, room, sock,
                   joins>>
    /\ UNCHANGED <<configVars, trackerVars, asideVars>>

\* the read of readNewLines fails (the file is missing or cannot be opened
\* at that moment): its catch returns [], and the handler goes on with
\* filePosition = stats.size and, newLines being empty, emits nothing
ChangeReadFails(h) ==
    /\ h \in BagToSet(changes)
    /\ h.pc = "read"
    /\ filePosition' = h.size
    /\ changes' = changes (-) SetToBag({h})
    /\ primed' = TRUE
    /\ last' = Step("change:read:failed", h.size, filePosition, h.rotated,
                     "done", <<>>)
    /\ UNCHANGED <<file, written, dirty, subscribedSockets, room, sock,
                   joins, hist, inbox>>
    /\ UNCHANGED <<configVars, trackerVars, asideVars>>

(***************************************************************************)
(* io.on('connection', (socket) => {...})                                  *)
(***************************************************************************)
Connect(c) ==
    /\ sock[c] = "closed"
    /\ joins[c].pc = "idle"
    /\ sock' = [sock EXCEPT ![c] = "open"]
    /\ last' = Quiet
    /\ UNCHANGED <<file, written, dirty, filePosition, subscribedSockets,
                   room, changes, joins, primed, hist, inbox>>
    /\ UNCHANGED <<configVars, trackerVars, asideVars>>

\* socket.on('subscribe:logs'): join, add, and await readLastLines
Subscribe(c) ==
    /\ sock[c] = "open"
    /\ joins[c].pc = "idle"
    /\ Cardinality({d \in DOMAIN joins : joins[d].pc # "idle"}) < MaxJoining
    /\ room' = room \cup {c}
    /\ subscribedSockets' = subscribedSockets \cup {c}
    /\ joins' = [joins EXCEPT ![c] = [pc |-> "read", lines |-> <<>>]]
    /\ hist' = Dropped(hist, c)
    /\ inbox' = Restarted(inbox, c \notin room)
    /\ last' = Quiet
    /\ UNCHANGED <<file, written, dirty, filePosition, sock, changes,
                   primed>>
    /\ UNCHANGED <<configVars, trackerVars, asideVars>>

\* readLastLines resolves: await fs.stat(logPath)
SubscribeRead(c) ==
    /\ joins[c].pc = "read"
    /\ joins' = [joins EXCEPT ![c] =
                    [pc |-> "stat",
                     lines |-> readLastLines(file, SnapshotCount)]]
    /\ last' = Quiet
    /\ UNCHANGED <<file, written, dirty, filePosition, subscribedSockets,
                   room, sock, changes, primed, hist, inbox>>
    /\ UNCHANGED <<configVars, trackerVars, asideVars>>

\* fs.stat resolves: filePosition = stats.size; socket.emit('logs:initial')
SubscribeStat(c) ==
    /\ joins[c].pc = "stat"
    /\ LET size == Len(file)
           ev   == ToSocket(c, "logs:initial", joins[c].lines)
       IN  /\ filePosition' = size
           /\ hist' = Received(hist, ev, size)
           /\ last' = [Step("subscribe:stat", size, filePosition, FALSE,
                            "done", <<ev>>) EXCEPT !.who = c]
    /\ joins' = [joins EXCEPT ![c] = NoJoin]
    /\ primed' = TRUE
    /\ UNCHANGED <<file, written, dirty, subscribedSockets, room, sock,
                   changes, inbox>>
    /\ UNCHANGED <<configVars, trackerVars, asideVars>>

\* socket.on('unsubscribe:logs')
Unsubscribe(c) ==
    /\ sock[c] = "open"
    /\ room' = Deleted(room, c)
    /\ subscribedSockets' = Deleted(subscribedSockets, c)
    /\ hist' = Dropped(hist, c)
    /\ inbox' = Restarted(inbox, c \in room)
    /\ last' = Leave("unsubscribe:logs", c)
    /\ UNCHANGED <<file, written, dirty, filePosition, sock, changes,
                   joins, primed>>
    /\ UNCHANGED <<configVars, trackerVars, asideVars>>

\* socket.on('disconnect'); socket.io has taken the socket out of its
\* rooms when the handler runs
Disconnect(c) ==
    /\ sock[c] = "open"
    /\ sock' = [sock EXCEPT ![c] = "closed"]
    /\ room' = Deleted(room, c)
    /\ subscribedSockets' = Deleted(subscribedSockets, c)
    /\ hist' = Dropped(hist, c)
    /\ inbox' = Restarted(inbox, c \in room)
    /\ last' = Leave("disconnect", c)
    /\ UNCHANGED <<file, written, dirty, filePosition, changes, joins,
                   primed>>
    /\ UNCHANGED <<configVars, trackerVars, asideVars>>

Next ==
    \/ AppendByte
    \/ Truncate
    \/ Change
    \/ \E h \in BagToSet(changes) : ChangeStat(h)
    \/ \E h \in BagToSet(changes) : ChangeStatFails(h)
    \/ \E h \in BagToSet(changes) : ChangeRead(h)
    \/ \E h \in BagToSet(changes) : ChangeReadFails(h)
    \/ \E c \in DOMAIN sock : Connect(c)
    \/ \E c \in DOMAIN sock : Subscribe(c)
    \/ \E c \in DOMAIN sock : SubscribeRead(c)
    \/ \E c \in DOMAIN sock : SubscribeStat(c)
    \/ \E c \in DOMAIN sock : Unsubscribe(c)
    \/ \E c \in DOMAIN sock : Disconnect(c)

\* setInterval(async () => { ... }, 5000): the status of the container is
\* asked of dockerService.getStatus() and is emitted when it has resolved
StatusUpdate ==
    /\ last' = Step("status:update", -1, -1, FALSE, "done",
                    <<ToAll("status:update")>>)
    /\ UNCHANGED <<file, written, dirty, filePosition, subscribedSockets,
                   room, sock, changes, joins, primed, hist, inbox>>
    /\ UNCHANGED <<configVars, trackerVars, asideVars>>

\* the log stream together with the periodic status
NextBroadcast == Next \/ StatusUpdate

(***************************************************************************)
(* ConfigService (save, restore, createBackup, cleanOldBackups) behind the *)
(* config routes.  A file holds a sequence of characters.  The handlers    *)
(* are cut at their awaits; writeFile and copyFile open their target       *)
(* (which truncates it) and fill it before they resolve, and what the      *)
(* target holds in between is any proper prefix of the content.  A handler *)
(* that fills a file keeps its descriptor while a rename moves the file.   *)
(***************************************************************************)
\* private maxBackups = 10
maxBackups == 10

\* config requests of one behaviour when they are handled one at a time
MaxRequests == 12
\* config requests of one behaviour when two handlers run at a time
MaxRacing == 3

\* what a path holds at which no file exists
NoFile == <<"ENOENT">>

\* the config.yml that the installation starts with
Installed == <<"o", "k">>

\* the documents that the editor behind each request handler submits; the
\* character "[" opens a flow sequence that nothing closes
Drafts ==
    [r1 |-> {<<"a", "k">>, <<"[", "k">>},
     r2 |-> {<<"b", "k">>}]

\* yaml.load(content) returns: it throws a YAMLException on a flow
\* sequence that is not closed
YamlLoads(content) == \A i \in 1..Len(content) : content[i] # "["

\* what a file holds while content is being written to it
Torn(content) == {SubSeq(content, 1, n) : n \in 0..(Len(content) - 1)}

\* a request handler that runs nothing
Idle ==
    [pc |-> "idle", op |-> "", content |-> <<>>, name |-> 0, stamp |-> 0,
     fd |-> "", replaced |-> NoFile, ok |-> FALSE,
     found |-> NoFile, kept |-> {}]

\* the handler of a request that has just arrived
Arrived(op, content, name, pc) ==
    [Idle EXCEPT !.op = op, !.content = content, !.name = name, !.pc = pc]

\* the handler has returned {success: ok}
Returned(r, ok) == [r EXCEPT !.pc = "done", !.ok = ok, !.fd = ""]

\* the handler has returned {success: false} on arrival: what it found
Refused(r) ==
    [Returned(r, FALSE) EXCEPT !.found = configYml,
                               !.kept = DOMAIN backupDir]

\* a save that goes on to createBackup whatever yaml.load does
AfterLoadUnchecked(content) == "backup"

\* save, after yaml.load(content): the catch returns, or createBackup runs
AfterLoad(content) == IF YamlLoads(content) THEN "backup" ELSE "done"

\* restore, after fs.access(backupPath)
AfterAccess(name, dir) == IF name \in DOMAIN dir THEN "backup" ELSE "done"

\* the directory after fs.copyFile(this.configPath, backupPath)
WithBackup(dir, t, content) ==
    [s \in DOMAIN dir \cup {t} |-> IF s = t THEN content ELSE dir[s]]

\* listBackups: the backup files, newest modification first
RECURSIVE NewestFirst(_)
NewestFirst(stamps) ==
    IF stamps = {} THEN <<>>
    ELSE LET t == CHOOSE s \in stamps : \A u \in stamps : u <= s
         IN  <<t>> \o NewestFirst(stamps \ {t})

listBackups(dir) == NewestFirst(DOMAIN dir)

\* Array.prototype.slice(start) for start >= 0
SliceFrom(s, start) == SubSeq(s, start + 1, Len(s))

\* a choice that deletes the newest files beyond maxBackups
SurplusNewest(backups) == SubSeq(backups, 1, Len(backups) - maxBackups)

\* const toDelete = backups.slice(this.maxBackups)
Surplus(backups) == SliceFrom(backups, maxBackups)

\* cleanOldBackups: the directory after the unlinks
cleanOldBackups(dir) ==
    LET backups == listBackups(dir)
    IN  IF Len(backups) > maxBackups
        THEN [s \in DOMAIN dir \ Range(Surplus(backups)) |-> dir[s]]
        ELSE dir

\* another handler is between its arrival and its return
Overlaps(h) ==
    \E g \in DOMAIN requests \ {h} : requests[g].pc \notin {"idle", "done"}

\* new Date() in createBackup: the clock has moved on since the newest
\* backup name, unless an overlapping request took that name in the same
\* millisecond
Timestamps(h) == {now + 1} \cup (IF now > 0 /\ Overlaps(h) THEN {now} ELSE {})

\* the descriptors of the other handlers after rename(tempPath, configPath):
\* who fills the temp file now fills config.yml, who fills the old
\* config.yml fills a file without a name
Renamed(rs, h) ==
    [g \in DOMAIN rs |->
        IF g = h THEN rs[g]
        ELSE IF rs[g].fd = "temp" THEN [rs[g] EXCEPT !.fd = "config"]
        ELSE IF rs[g].fd = "config" THEN [rs[g] EXCEPT !.fd = "gone"]
        ELSE rs[g]]

\* the state after the ConfigService was constructed, for the request
\* handlers hs and n requests to come; config.yml may not exist yet
InitConfig(hs, n) ==
    /\ configYml \in {Installed, NoFile}
    /\ tempFile = NoFile
    /\ backupDir = [s \in {} |-> <<>>]
    /\ now = 0
    /\ quota = n
    /\ requests = [h \in hs |-> Idle]

\* PUT /api/config: save(content) up to its first await
SaveBegin(h, content) ==
    /\ quota > 0
    /\ requests[h].pc \in {"idle", "done"}
    /\ quota' = quota - 1
    /\ requests' = [requests EXCEPT ![h] =
          LET r == Arrived("save", content, 0, AfterLoad(content))
          IN  IF r.pc = "done" THEN Refused(r) ELSE r]
    /\ UNCHANGED <<configYml, tempFile, backupDir, now>>
    /\ UNCHANGED <<logVars, trackerVars, asideVars>>

\* POST /api/config/restore/:filename: restore(backupFilename) up to the
\* await that follows fs.access
RestoreBegin(h, name) ==
    /\ quota > 0
    /\ requests[h].pc \in {"idle", "done"}
    /\ quota' = quota - 1
    /\ requests' = [requests EXCEPT ![h] =
          LET r == Arrived("restore", <<>>, name, AfterAccess(name, backupDir))
          IN  IF r.pc = "done" THEN Refused(r) ELSE r]
    /\ UNCHANGED <<configYml, tempFile, backupDir, now>>
    /\ UNCHANGED <<logVars, trackerVars, asideVars>>

\* createBackup: the name from new Date(), and fs.copyFile of config.yml,
\* which rejects when config.yml does not exist
CreateBackup(h) ==
    /\ requests[h].pc = "backup"
    /\ IF configYml = NoFile
       THEN /\ requests' = [requests EXCEPT ![h] = Returned(@, FALSE)]
            /\ UNCHANGED <<backupDir, now>>
       ELSE \E t \in Timestamps(h) :
               /\ backupDir' = WithBackup(backupDir, t, configYml)
               /\ now' = t
               /\ requests' = [requests EXCEPT ![h].pc = "clean",
                                               ![h].stamp = t]
    /\ UNCHANGED <<configYml, tempFile, quota>>
    /\ UNCHANGED <<logVars, trackerVars, asideVars>>

\* createBackup: await this.cleanOldBackups()
CleanOldBackups(h) ==
    /\ requests[h].pc = "clean"
    /\ backupDir' = cleanOldBackups(backupDir)
    /\ requests' = [requests EXCEPT ![h].pc =
                       IF requests[h].op = "save" THEN "write" ELSE "copy"]
    /\ UNCHANGED <<configYml, tempFile, now, quota>>
    /\ UNCHANGED <<logVars, trackerVars, asideVars>>

\* save: fs.writeFile(tempPath, content) has opened the temp file
SaveWrite(h) ==
    /\ requests[h].pc = "write"
    /\ \E part \in Torn(requests[h].content) : tempFile' = part
    /\ requests' = [requests EXCEPT ![h].pc = "writing", ![h].fd = "temp"]
    /\ UNCHANGED <<configYml, backupDir, now, quota>>
    /\ UNCHANGED <<logVars, trackerVars, asideVars>>

\* save: fs.writeFile resolves, the content is in the file it had opened
SaveWritten(h) ==
    /\ requests[h].pc = "writing"
    /\ tempFile' = IF requests[h].fd = "temp"
                   THEN requests[h].content ELSE tempFile
    /\ configYml' = IF requests[h].fd = "config"
                    THEN requests[h].content ELSE configYml
    /\ requests' = [requests EXCEPT ![h].pc = "rename", ![h].fd = ""]
    /\ UNCHANGED <<backupDir, now, quota>>
    /\ UNCHANGED <<logVars, trackerVars, asideVars>>

\* save: fs.rename(tempPath, this.configPath), which rejects when the temp
\* file does not exist
SaveRename(h) ==
    /\ requests[h].pc = "rename"
    /\ IF tempFile = NoFile
       THEN /\ requests' = [requests EXCEPT ![h] = Returned(@, FALSE)]
            /\ UNCHANGED <<configYml, tempFile>>
       ELSE /\ configYml' = tempFile
            /\ tempFile' = NoFile
            /\ requests' = Renamed(
                  [requests EXCEPT ![h] =
                      Returned([@ EXCEPT !.replaced = configYml], TRUE)], h)
    /\ UNCHANGED <<backupDir, now, quota>>
    /\ UNCHANGED <<logVars, trackerVars, asideVars>>

\* restore: fs.copyFile(backupPath, this.configPath) has opened config.yml;
\* it rejects when the backup does not exist
RestoreCopy(h) ==
    /\ requests[h].pc = "copy"
    /\ IF requests[h].name \notin DOMAIN backupDir
       THEN /\ requests' = [requests EXCEPT ![h] = Returned(@, FALSE)]
            /\ UNCHANGED configYml
       ELSE \E part \in Torn(backupDir[requests[h].name]) :
               /\ configYml' = part
               /\ requests' = [requests EXCEPT
                     ![h].pc = "copying",
                     ![h].fd = "config",
                     ![h].content = backupDir[requests[h].name],
                     ![h].replaced = configYml]
    /\ UNCHANGED <<tempFile, backupDir, now, quota>>
    /\ UNCHANGED <<logVars, trackerVars, asideVars>>

\* restore: fs.copyFile resolves, the content is in the file it had opened
RestoreCopied(h) ==
    /\ requests[h].pc = "copying"
    /\ configYml' = IF requests[h].fd = "config"
                    THEN requests[h].content ELSE configYml
    /\ requests' = [requests EXCEPT ![h] = Returned(@, TRUE)]
    /\ UNCHANGED <<tempFile, backupDir, now, quota>>
    /\ UNCHANGED <<logVars, trackerVars, asideVars>>

NextConfig ==
    \/ \E h \in DOMAIN requests : \E content \in Drafts[h] :
          SaveBegin(h, content)
    \/ \E h \in DOMAIN requests : \E name \in {0} \cup DOMAIN backupDir :
          RestoreBegin(h, name)
    \/ \E h \in DOMAIN requests : CreateBackup(h)
    \/ \E h \in DOMAIN requests : CleanOldBackups(h)
    \/ \E h \in DOMAIN requests : SaveWrite(h)
    \/ \E h \in DOMAIN requests : SaveWritten(h)
    \/ \E h \in DOMAIN requests : SaveRename(h)
    \/ \E h \in DOMAIN requests : RestoreCopy(h)
    \/ \E h \in DOMAIN requests : RestoreCopied(h)

(***************************************************************************)
(* LogService.getLastRun over logs/meta.log.  Of a line the model keeps    *)
(* what getLastRun looks at: whether it matches LOG_PATTERN, the time that *)
(* its [timestamp] group then holds (in ms), and whether it includes       *)
(* 'Starting Run' and 'Finished Run'.                                      *)
(***************************************************************************)
\* lines of meta.log
MaxLines == 3

\* await this.readLines('meta.log', 2000)
WindowCount == 2000

\* the times that lines of the model carry
Times == {0, 59999, 330500}

\* timestamp: '' of a line that does not match LOG_PATTERN
EmptyString == -1

\* let startTime: string | null = null
null == -2

\* a string or null is truthy: it is a string that is not empty
Truthy(v) == v >= 0

LogLine(matches, timestamp, starting, finished) ==
    [matches |-> matches, timestamp |-> timestamp, starting |-> starting,
     finished |-> finished]

\* the lines of the model
LogLines ==
    {LogLine(TRUE, t, s, f) : t \in Times, s \in BOOLEAN, f \in BOOLEAN}
       \cup {LogLine(FALSE, 0, s, f) : s \in BOOLEAN, f \in BOOLEAN}

\* the files of up to n lines
RECURSIVE LogFiles(_)
LogFiles(n) ==
    IF n = 0 THEN {<<>>}
    ELSE LET shorter == LogFiles(n - 1)
         IN  shorter \cup {Append(f, l) : f \in {g \in shorter : Len(g) = n - 1},
                                          l \in LogLines}

\* parseLine(raw).timestamp: the first group of the match, or '' when the
\* line does not match
parseLine(raw) ==
    [timestamp |-> IF raw.matches THEN raw.timestamp ELSE EmptyString]

\* readLines(filename, count): lines.slice(-count)
readLines(f, count) == SliceLast(f, count)

\* the loop of getLastRun from index i down, with the endTime found so far
RECURSIVE ScanBack(_, _, _)
ScanBack(lines, i, endTime) ==
    IF i < 1
    THEN [startTime |-> null, endTime |-> endTime]
    ELSE LET line == lines[i]
             found == IF ~Truthy(endTime) /\ line.finished
                      THEN parseLine(line).timestamp
                      ELSE endTime
         IN  IF line.starting
             THEN [startTime |-> parseLine(line).timestamp,
                   endTime |-> found]
             ELSE ScanBack(lines, i - 1, found)

\* the remainder operator % of JavaScript: the sign of the dividend
JsRem(a, b) == IF a >= 0 THEN a % b ELSE -((-a) % b)

\* Math.floor(a / b) for b > 0
Floor(a, b) == a \div b

\* Math.round(a / b) for b > 0
Round(a, b) == (2 * a + b) \div (2 * b)

\* const minutes = Math.floor(diffMs / 60000)
Minutes(diffMs) == Floor(diffMs, 60000)

\* seconds that are rounded to the nearest
SecondsRounded(diffMs) == Round(JsRem(diffMs, 60000), 1000)

\* const seconds = Math.floor((diffMs % 60000) / 1000)
Seconds(diffMs) == Floor(JsRem(diffMs, 60000), 1000)

\* `${minutes}m ${seconds}s`
Duration(diffMs) ==
    ToString(Minutes(diffMs)) \o "m " \o ToString(Seconds(diffMs)) \o "s"

\* what getLastRun returns when it returns null
NoRun ==
    [startTime |-> null, endTime |-> null, duration |-> "null",
     status |-> "null"]

\* getLastRun()
getLastRun(f) ==
    LET lines == readLines(f, WindowCount)
        scan  == ScanBack(lines, Len(lines), null)
    IN  IF ~Truthy(scan.startTime) THEN NoRun
        ELSE IF Truthy(scan.endTime)
             THEN [startTime |-> scan.startTime, endTime |-> scan.endTime,
                   duration |-> Duration(scan.endTime - scan.startTime),
                   status |-> "completed"]
             ELSE [startTime |-> scan.startTime, endTime |-> scan.endTime,
                   duration |-> "null", status |-> "running"]

\* lastRun before GET /api/logs/last-run was asked
Unasked ==
    [startTime |-> null, endTime |-> null, duration |-> "null",
     status |-> "unasked"]

\* meta.log as the job has left it
InitTracker ==
    /\ metaLog \in LogFiles(MaxLines)
    /\ lastRun = Unasked

\* GET /api/logs/last-run
GetLastRun ==
    /\ lastRun' = getLastRun(metaLog)
    /\ UNCHANGED metaLog
    /\ UNCHANGED <<logVars, configVars, asideVars>>

NextTracker == GetLastRun

(***************************************************************************)
(* The tail reads: LogService.readLines behind GET /api/logs and           *)
(* readLastLines of the log stream.  Both read every line of the file and  *)
(* return lines.slice(-count); a file that cannot be opened yields [].     *)
(***************************************************************************)
\* bytes of a log file that a tail read is asked of
MaxTailBytes == 3
\* the largest count that a tail read is asked with
MaxCount == 3

\* what a path of logs/ holds at which no file exists: createReadStream
\* fails with ENOENT
NoLog == <<-1>>

\* the files of at most n bytes, and the path at which no file exists
RECURSIVE TailFiles(_)
TailFiles(n) ==
    IF n = 0
    THEN {NoLog, <<>>}
    ELSE TailFiles(n - 1) \cup
         {Append(f, b) : f \in (TailFiles(n - 1) \ {NoLog}), b \in {NL, 1, 2}}

\* tailLines before a tail read was asked: read holds the readers that
\* have returned
Unread == [read |-> {}, service |-> <<>>, stream |-> <<>>]

\* try { ... return lines.slice(-count) } catch { return [] } of
\* LogService.readLines
TryReadLines(f, count) ==
    IF f = NoLog THEN <<>> ELSE readLines(SplitLines(f), count)

\* try { ... return lines.slice(-count) } catch { return [] } of
\* readLastLines
TryReadLastLines(f, count) ==
    IF f = NoLog THEN <<>> ELSE readLastLines(f, count)

\* a log file and a count to ask with
InitTail ==
    /\ tailFile \in TailFiles(MaxTailBytes)
    /\ tailCount \in 0..MaxCount
    /\ tailLines = Unread

\* await logService.readLines(filename, count)
ReadLines ==
    /\ tailLines' =
           [tailLines EXCEPT !.read = @ \cup {"service"},
                             !.service = TryReadLines(tailFile, tailCount)]
    /\ UNCHANGED <<tailFile, tailCount>>
    /\ UNCHANGED <<logVars, configVars, trackerVars, validateVars, dockerVars>>

\* await readLastLines(logPath, count)
ReadLastLines ==
    /\ tailLines' =
           [tailLines EXCEPT !.read = @ \cup {"stream"},
                             !.stream = TryReadLastLines(tailFile, tailCount)]
    /\ UNCHANGED <<tailFile, tailCount>>
    /\ UNCHANGED <<logVars, configVars, trackerVars, validateVars, dockerVars>>

NextTail == ReadLines \/ ReadLastLines

(***************************************************************************)
(* ConfigService.validate.  A content is modelled by what yaml.load makes  *)
(* of it: an exception, or a value, of which the model keeps the kind and, *)
(* for the keys that validate looks at, the kind of what they hold.        *)
(***************************************************************************)
\* the kinds of a value: no value at all (the key is absent), null, the
\* empty string, false or 0, another scalar, a sequence, a mapping
Kinds ==
    {"undefined", "null", "empty", "false", "scalar", "sequence", "mapping"}

\* !v
Not(v) == v \in {"undefined", "null", "empty", "false"}

\* typeof v === 'object'
TypeofObject(v) == v \in {"null", "sequence", "mapping"}

\* a value that has no keys holds undefined at every key
NoKeys == Kinds \ {"mapping"}

\* what parsed.plex may be: a value with its url and its token
PlexValues ==
    {[is |-> k, url |-> "undefined", token |-> "undefined"] : k \in NoKeys}
    \cup [is : {"mapping"}, url : {"undefined", "empty", "false", "scalar"},
          token : {"undefined", "null", "scalar"}]

\* what yaml.load(content) may come to
Documents ==
    {[parsed |-> k, plex |-> [is |-> "undefined", url |-> "undefined",
                              token |-> "undefined"],
      libraries |-> "undefined", settings |-> "undefined"] :
         k \in {"throws"} \cup NoKeys}
    \cup [parsed : {"mapping"}, plex : PlexValues,
          libraries : {"undefined", "null", "sequence", "mapping"},
          settings : {"undefined", "mapping"}]

\* errors.push(message), on every path but the first
PushedFirst(errors, message) ==
    IF errors = <<>> THEN <<message>> ELSE errors

\* errors.push(message)
Pushed(errors, message) == Append(errors, message)

\* the checks of parsed.plex
PlexErrors(plex) ==
    IF Not(plex.is)
    THEN Pushed(<<>>, "Missing required section: plex")
    ELSE LET url == IF Not(plex.url)
                    THEN Pushed(<<>>, "Missing plex.url")
                    ELSE <<>>
         IN  IF Not(plex.token)
             THEN Pushed(url, "Missing plex.token")
             ELSE url

\* the check of parsed.libraries, after those of parsed.plex
SectionErrors(doc) ==
    IF Not(doc.libraries)
    THEN Pushed(PlexErrors(doc.plex), "Missing required section: libraries")
    ELSE PlexErrors(doc.plex)

\* validate(content), of the document that content loads to
validate(doc) ==
    IF doc.parsed = "throws"
    THEN [valid |-> FALSE, errors |-> <<"YAML syntax error">>]
    ELSE IF Not(doc.parsed) \/ ~TypeofObject(doc.parsed)
         THEN [valid |-> FALSE,
               errors |-> <<"Configuration must be a valid YAML object">>]
         ELSE [valid |-> Len(SectionErrors(doc)) = 0,
               errors |-> SectionErrors(doc)]

\* validation before validate was called
Unvalidated == [valid |-> FALSE, errors |-> <<"unvalidated">>]

\* a content to validate
InitValidate ==
    /\ document \in Documents
    /\ validation = Unvalidated

\* await configService.validate(content)
Validate ==
    /\ validation' = validate(document)
    /\ UNCHANGED document
    /\ UNCHANGED <<logVars, configVars, trackerVars, tailVars, dockerVars>>

NextValidate == Validate

(***************************************************************************)
(* DockerService and the routes of /api/docker.  One request is in flight  *)
(* at a time; every await of a runtime call ends one stretch, and the call *)
(* either resolves or rejects with a thrown value.                         *)
(***************************************************************************)
\* info.State as container.inspect() reports it
States ==
    {[Running |-> FALSE, Paused |-> FALSE, Restarting |-> FALSE],
     [Running |-> TRUE, Paused |-> FALSE, Restarting |-> FALSE],
     [Running |-> TRUE, Paused |-> TRUE, Restarting |-> FALSE],
     [Running |-> TRUE, Paused |-> FALSE, Restarting |-> TRUE]}

\* info.State after the container has exited, and after it was started
Exited == [Running |-> FALSE, Paused |-> FALSE, Restarting |-> FALSE]
Started == [Running |-> TRUE, Paused |-> FALSE, Restarting |-> FALSE]

\* how long ago meta.log was modified when the status is asked, in ms
LogAges == {0, 59999, 60001}

\* what a runtime call may reject with: an Error, or a value that is none
Thrown ==
    {[isError |-> TRUE, message |-> "no such container"],
     [isError |-> TRUE, message |-> "connect ENOENT /var/run/docker.sock"],
     [isError |-> FALSE, message |-> ""]}

\* error instanceof Error ? error.message : fallback
ErrorMessage(error, fallback) ==
    IF error.isError THEN error.message ELSE fallback

\* the literal after the colon in the catch block of each method
Fallback(op) ==
    CASE op = "status" -> "Unknown error"
      [] op = "run" -> "Failed to trigger run"
      [] op = "stop" -> "Failed to stop container"
      [] op = "restart" -> "Failed to restart container"

\* let containerState = 'exited'; if (state.Running) ... else if ...
ContainerState(state) ==
    IF state.Running THEN "running"
    ELSE IF state.Paused THEN "paused"
    ELSE IF state.Restarting THEN "restarting"
    ELSE "exited"

\* what getStatus returns after inspect resolved.  startedAt, finishedAt,
\* exitCode and scheduledTime are copied from info and are left out
StatusOf(state) ==
    [containerState |-> ContainerState(state),
     isJobActive |-> state.Running, error |-> "null"]

\* what getStatus returns from its catch block
StatusUnknown(error) ==
    [containerState |-> "unknown", isJobActive |-> FALSE,
     error |-> ErrorMessage(error, Fallback("status"))]

\* { success: true, message } of triggerRun, stopContainer, restartContainer
Succeeded(message) ==
    [success |-> TRUE, message |-> message]

\* { success: false, message } of their catch blocks
Failed(op, error) ==
    [success |-> FALSE, message |-> ErrorMessage(error, Fallback(op))]

\* if (!info.State.Running), with the test left out
ToStartAlways(state) == TRUE

\* if (!info.State.Running)
ToStart(state) == ~state.Running

\* the routes answer every result with 200
AnswerOk(result) == 200

\* if (result.success) res.json(result) else res.status(500).json(result)
Answer(result) == IF result.success THEN 200 ELSE 500

\* no status and no result has been returned
NoStatus == [containerState |-> "", isJobActive |-> FALSE, error |-> ""]
NoResult == [success |-> FALSE, message |-> ""]

\* no request to /api/docker has arrived
NoCall ==
    [op |-> "", pc |-> "idle", calls |-> <<>>, inspected |-> Exited,
     rejected |-> FALSE, thrown |-> [isError |-> FALSE, message |-> ""],
     status |-> NoStatus, result |-> NoResult, answer |-> 0]

\* the first await of each method
FirstAwait(op) ==
    CASE op = "status" -> "inspect"
      [] op = "run" -> "inspect"
      [] op = "stop" -> "stop"
      [] op = "restart" -> "restart"

\* getStatus has returned status and GET /status has answered
\* res.json(status)
Reported(c, status) ==
    [c EXCEPT !.pc = "done", !.status = status, !.answer = 200]

\* the method has returned result and its route has answered
Answered(c, result) ==
    [c EXCEPT !.pc = "done", !.result = result, !.answer = Answer(result)]

\* the kometa container in some state, meta.log of some age
InitDocker ==
    /\ container \in States
    /\ logAge \in LogAges
    /\ call = NoCall

\* GET /status, POST /run, POST /stop, POST /restart arrives
DockerRequest(op) ==
    /\ call.pc \in {"idle", "done"}
    /\ call' = [NoCall EXCEPT !.op = op, !.pc = FirstAwait(op)]
    /\ UNCHANGED <<container, logAge>>
    /\ UNCHANGED <<logVars, configVars, trackerVars, tailVars, validateVars>>

\* the job ends, or somebody else starts, pauses or restarts the container
ContainerChanges ==
    /\ container' \in States \ {container}
    /\ UNCHANGED <<logAge, call>>
    /\ UNCHANGED <<logVars, configVars, trackerVars, tailVars, validateVars>>

\* getStatus: await this.container.inspect() resolves
StatusInspected ==
    /\ call.op = "status" /\ call.pc = "inspect"
    /\ call' = Reported([call EXCEPT !.calls = Append(@, "inspect"),
                                     !.inspected = container],
                        StatusOf(container))
    /\ UNCHANGED <<container, logAge>>
    /\ UNCHANGED <<logVars, configVars, trackerVars, tailVars, validateVars>>

\* triggerRun: await this.container.inspect() resolves
RunInspected ==
    /\ call.op = "run" /\ call.pc = "inspect"
    /\ call' = [call EXCEPT !.calls = Append(@, "inspect"),
                            !.inspected = container,
                            !.pc = IF ToStart(container)
                                   THEN "start" ELSE "exec"]
    /\ UNCHANGED <<container, logAge>>
    /\ UNCHANGED <<logVars, configVars, trackerVars, tailVars, validateVars>>

\* triggerRun: await this.container.start() resolves
RunStarted ==
    /\ call.pc = "start"
    /\ container' = Started
    /\ call' = Answered([call EXCEPT !.calls = Append(@, "start")],
                        Succeeded("Container started"))
    /\ UNCHANGED logAge
    /\ UNCHANGED <<logVars, configVars, trackerVars, tailVars, validateVars>>

\* triggerRun: await this.container.exec({...}) resolves
RunExecCreated ==
    /\ call.pc = "exec"
    /\ call' = [call EXCEPT !.calls = Append(@, "exec"),
                            !.pc = "exec.start"]
    /\ UNCHANGED <<container, logAge>>
    /\ UNCHANGED <<logVars, configVars, trackerVars, tailVars, validateVars>>

\* triggerRun: await exec.start({ Detach: true }) resolves
RunExecStarted ==
    /\ call.pc = "exec.start"
    /\ call' = Answered([call EXCEPT !.calls = Append(@, "exec.start")],
                        Succeeded("Kometa run triggered"))
    /\ UNCHANGED <<container, logAge>>
    /\ UNCHANGED <<logVars, configVars, trackerVars, tailVars, validateVars>>

\* stopContainer: await this.container.stop({ t: 10 }) resolves
StopDone ==
    /\ call.pc = "stop"
    /\ container' = Exited
    /\ call' = Answered([call EXCEPT !.calls = Append(@, "stop")],
                        Succeeded("Container stopped"))
    /\ UNCHANGED logAge
    /\ UNCHANGED <<logVars, configVars, trackerVars, tailVars, validateVars>>

\* restartContainer: await this.container.restart({ t: 10 }) resolves
RestartDone ==
    /\ call.pc = "restart"
    /\ container' = Started
    /\ call' = Answered([call EXCEPT !.calls = Append(@, "restart")],
                        Succeeded("Container restarted"))
    /\ UNCHANGED logAge
    /\ UNCHANGED <<logVars, configVars, trackerVars, tailVars, validateVars>>

\* the awaited runtime call rejects: the catch block of the method
Rejects(error) ==
    /\ call.pc \notin {"idle", "done"}
    /\ call' = IF call.op = "status"
               THEN Reported([call EXCEPT !.rejected = TRUE,
                                          !.thrown = error],
                             StatusUnknown(error))
               ELSE Answered([call EXCEPT !.rejected = TRUE,
                                          !.thrown = error],
                             Failed(call.op, error))
    /\ UNCHANGED <<container, logAge>>
    /\ UNCHANGED <<logVars, configVars, trackerVars, tailVars, validateVars>>

NextDocker ==
    \/ \E op \in {"status", "run", "stop", "restart"} : DockerRequest(op)
    \/ ContainerChanges
    \/ StatusInspected
    \/ RunInspected
    \/ RunStarted
    \/ RunExecCreated
    \/ RunExecStarted
    \/ StopDone
    \/ RestartDone
    \/ \E error \in Thrown : Rejects(error)

(***************************************************************************)
(* Specifications.  Each one runs one part of the program; the variables   *)
(* of the other parts stay as they are set here.                           *)
(***************************************************************************)
LogsOff == InitOf({}, {}) /\ inbox = [c \in {} |-> <<>>]

ConfigOff ==
    /\ configYml = NoFile
    /\ tempFile = NoFile
    /\ backupDir = [s \in {} |-> <<>>]
    /\ now = 0
    /\ quota = 0
    /\ requests = [h \in {} |-> Idle]

TrackerOff == metaLog = <<>> /\ lastRun = Unasked

TailOff ==
    /\ tailFile = NoLog
    /\ tailCount = 0
    /\ tailLines = Unread

ValidateOff ==
    /\ document = [parsed |-> "undefined",
                   plex |-> [is |-> "undefined", url |-> "undefined",
                             token |-> "undefined"],
                   libraries |-> "undefined", settings |-> "undefined"]
    /\ validation = Unvalidated

DockerOff == container = Exited /\ logAge = 0 /\ call = NoCall

AsideOff == TailOff /\ ValidateOff /\ DockerOff

\* two clients, of which c1 shows the logs
Init ==
    /\ InitOf(Clients, {"c1"})
    /\ inbox = [c \in {} |-> <<>>]
    /\ ConfigOff
    /\ TrackerOff
    /\ AsideOff

Spec == Init /\ [][Next]_vars

\* one client, which listens to no event
InitWatcher ==
    /\ InitOf({"c1"}, {})
    /\ inbox = [c \in {} |-> <<>>]
    /\ ConfigOff
    /\ TrackerOff
    /\ AsideOff

SpecWatcher == InitWatcher /\ [][Next]_vars

\* every client records the events of the room; the job has written two
\* bytes and has emptied the file before the first client connects
InitFanout ==
    /\ file = <<>>
    /\ written = 2
    /\ dirty = FALSE
    /\ filePosition = 0
    /\ subscribedSockets = {}
    /\ room = {}
    /\ sock = [c \in Clients |-> "closed"]
    /\ changes = EmptyBag
    /\ joins = [c \in Clients |-> NoJoin]
    /\ primed = FALSE
    /\ hist = [c \in {} |-> NoHist]
    /\ last = Quiet
    /\ inbox = [c \in Clients |-> <<>>]
    /\ ConfigOff
    /\ TrackerOff
    /\ AsideOff

SpecFanout == InitFanout /\ [][Next]_vars

\* config requests that are handled one at a time
InitSerial ==
    LogsOff /\ TrackerOff /\ AsideOff /\ InitConfig({"r1"}, MaxRequests)

SpecConfig == InitSerial /\ [][NextConfig]_vars

\* config requests that two handlers take
InitRacing ==
    LogsOff /\ TrackerOff /\ AsideOff /\ InitConfig({"r1", "r2"}, MaxRacing)

SpecConfigRacing == InitRacing /\ [][NextConfig]_vars

\* a meta.log to ask about
InitLastRun == LogsOff /\ ConfigOff /\ AsideOff /\ InitTracker

SpecTracker == InitLastRun /\ [][NextTracker]_vars

\* two clients that listen to no event, and the periodic status; the job
\* has written two bytes and has emptied the file before the first client
\* connects
InitBroadcast ==
    /\ file = <<>>
    /\ written = 2
    /\ dirty = FALSE
    /\ filePosition = 0
    /\ subscribedSockets = {}
    /\ room = {}
    /\ sock = [c \in Clients |-> "closed"]
    /\ changes = EmptyBag
    /\ joins = [c \in Clients |-> NoJoin]
    /\ primed = FALSE
    /\ hist = [c \in {} |-> NoHist]
    /\ last = Quiet
    /\ inbox = [c \in {} |-> <<>>]
    /\ ConfigOff
    /\ TrackerOff
    /\ AsideOff

SpecBroadcast == InitBroadcast /\ [][NextBroadcast]_vars

\* a log file to read the tail of
InitTailRead ==
    LogsOff /\ ConfigOff /\ TrackerOff /\ ValidateOff /\ DockerOff /\ InitTail

SpecTail == InitTailRead /\ [][NextTail]_vars

\* a content to validate
InitValidation ==
    LogsOff /\ ConfigOff /\ TrackerOff /\ TailOff /\ DockerOff /\ InitValidate

SpecValidate == InitValidation /\ [][NextValidate]_vars

\* the kometa container and the routes of /api/docker
InitContainer ==
    LogsOff /\ ConfigOff /\ TrackerOff /\ TailOff /\ ValidateOff /\ InitDocker

SpecDocker == InitContainer /\ [][NextDocker]_vars

(***************************************************************************)
(* Vocabulary of the properties.                                           *)
(***************************************************************************)
\* the lines of bytes that a newline ends
RECURSIVE TerminatedAcc(_, _)
TerminatedAcc(bytes, cur) ==
    IF bytes = <<>>
    THEN <<>>
    ELSE IF Head(bytes) = NL
         THEN <<cur>> \o TerminatedAcc(Tail(bytes), <<>>)
         ELSE TerminatedAcc(Tail(bytes), Append(cur, Head(bytes)))

\* the complete lines of bytes: ended by a newline, and not blank
CompleteLines(bytes) == SelectSeq(TerminatedAcc(bytes, <<>>), NotBlank)

\* the lines of the logs:new event of the last stretch (none without one)
PublishedLines ==
    IF \E i \in 1..Len(last.events) : last.events[i].type = "logs:new"
    THEN last.events[CHOOSE i \in 1..Len(last.events) :
                        last.events[i].type = "logs:new"].lines
    ELSE <<>>

\* the number of events of one type that the last stretch emitted
Emitted(type) ==
    Cardinality({i \in 1..Len(last.events) : last.events[i].type = type})

\* the last stretch emitted its events to the members of the room
EmittedToRoom == \A i \in 1..Len(last.events) : last.events[i].to = room

(***************************************************************************)
(* C3 as amended: a change handler that observes a file size smaller than  *)
(* the cursor sets the cursor to 0 and publishes logs:rotated and, in that *)
(* stretch, no logs:new.  When the observed size is 0 the invocation ends  *)
(* there with cursor = 0.  When it is greater than 0 the same invocation   *)
(* goes on to read the file from offset 0, publishes the lines that are    *)
(* not blank of the whole file as logs:new, and ends with cursor = the     *)
(* observed size.                                                          *)
(***************************************************************************)
C3_RotationReadsFromZero ==
    /\ (last.op = "change:stat" /\ last.size < last.pos) =>
          /\ last.rotated
          /\ Emitted("logs:rotated") = 1
          /\ Emitted("logs:new") = 0
          /\ filePosition = 0
          /\ IF last.size = 0
             THEN last.next = "done"
             ELSE /\ last.next = "read"
                  /\ AtRead(last.size, 0, TRUE) \in BagToSet(changes)
    /\ (last.op = "change:read" /\ last.rotated) =>
          /\ last.size > 0
          /\ last.pos = 0
          /\ filePosition = last.size
          /\ Emitted("logs:rotated") = 0
          /\ PublishedLines = SelectSeq(SplitLines(file), NotBlank)

\* a rotated file of size > 0: the invocation that published logs:rotated
\* has read it and published logs:new to a subscriber
C3_Witness ==
    /\ last.op = "change:read"
    /\ last.rotated
    /\ Emitted("logs:new") = 1
    /\ last.events[1].to # {}

(***************************************************************************)
(* C3 as claimed: a change handler that observes a file size smaller than  *)
(* the cursor ends with cursor = 0 after logs:rotated, and publishes no    *)
(* logs:new: the rewritten file is read by a later invocation only.        *)
(***************************************************************************)
C3_RotationDefersRead ==
    /\ (last.op = "change:stat" /\ last.size < last.pos) =>
          /\ Emitted("logs:rotated") = 1
          /\ filePosition = 0
          /\ last.next = "done"
    /\ last.op = "change:read" => ~last.rotated

(***************************************************************************)
(* C4: a change handler that was started with a subscriber publishes       *)
(* exactly one logs:rotated, to the room, when the size it observes is     *)
(* smaller than the cursor, whatever the size (0 too), and none when the   *)
(* size is the cursor or more; its other stretches publish none.           *)
(***************************************************************************)
C4_OneRotatedPerRotation ==
    /\ last.op = "change:stat" =>
          /\ Emitted("logs:rotated") = IF last.size < last.pos THEN 1 ELSE 0
          /\ EmittedToRoom
    /\ last.op \in {"change", "change:read", "subscribe:stat"} =>
          Emitted("logs:rotated") = 0

\* the file emptied under a cursor of 2 or more, and logs:rotated has
\* reached a subscriber
C4_Witness ==
    /\ last.op = "change:stat"
    /\ last.size = 0
    /\ last.pos >= 2
    /\ Emitted("logs:rotated") = 1
    /\ last.events[1].to # {}

(***************************************************************************)
(* C9: a change notification handled while nobody is subscribed, and one   *)
(* whose handler observes a file size equal to the cursor, publish no      *)
(* event, start no read of the file and leave the cursor as it was.        *)
(***************************************************************************)
C9_NothingToDo ==
    /\ (last.op = "change" /\ subscribedSockets = {}) =>
          /\ last.next = "done"
          /\ last.events = <<>>
          /\ filePosition = last.pos
    /\ (last.op = "change:stat" /\ last.size = last.pos) =>
          /\ last.next = "done"
          /\ last.events = <<>>
          /\ filePosition = last.pos
          /\ ~last.rotated

\* a handler started with a subscriber has observed a size equal to a
\* cursor that is not 0
C9_Witness ==
    /\ last.op = "change:stat"
    /\ last.size = last.pos
    /\ last.pos > 0
    /\ room # {}

\* a notification arrived with the file ahead of the cursor while nobody
\* was subscribed
C9_WitnessNoSubscriber ==
    /\ last.op = "change"
    /\ subscribedSockets = {}
    /\ Len(file) > filePosition

(***************************************************************************)
(* Vocabulary of the properties of the views.                              *)
(***************************************************************************)
\* nothing is left to handle: no notification is due, no handler is in
\* flight, and the cursor is at the end of the file
Settled ==
    /\ ~dirty
    /\ changes = EmptyBag
    /\ \A c \in DOMAIN joins : joins[c].pc = "idle"
    /\ filePosition = Len(file)

\* the file was never truncated: it holds every byte that was appended
NeverRotated == Len(file) = written

\* the first offset at or after off at which a line of f begins
LineStart(f, off) ==
    LET starts == {b \in off..Len(f) : b = 0 \/ f[b] = NL}
    IN  IF starts = {} THEN Len(f)
        ELSE CHOOSE b \in starts : \A d \in starts : b <= d

\* the complete lines of f that begin at or after offset off
LinesSince(f, off) == CompleteLines(BytesFrom(f, LineStart(f, off)))

\* the bytes of a sequence of lines
BytesOf(lines) == UNION {Range(lines[i]) : i \in 1..Len(lines)}

\* the last stretch assigned the cursor
CursorAssigned ==
    \/ last.op \in {"subscribe:stat", "change:read"}
    \/ last.op = "change:stat" /\ last.rotated

\* client c has had its logs:initial and has been subscribed since
Viewing(c) == hist[c].size >= 0 /\ c \in room

(***************************************************************************)
(* C1: a change handler that found the cursor at s1 and observed a file    *)
(* size s2 > s1 publishes, to the room, exactly the complete lines of the  *)
(* bytes [s1, s2) of the file, no byte from before s1 or from s2 on, and   *)
(* leaves the cursor at s2.                                                *)
(***************************************************************************)
C1_DeltaIsBytesFromCursorToSize ==
    (last.op = "change:read" /\ ~last.rotated /\ last.size <= Len(file)) =>
        /\ filePosition = last.size
        /\ EmittedToRoom
        /\ BytesOf(PublishedLines)
              \subseteq Range(SubSeq(file, last.pos + 1, last.size))
        /\ PublishedLines
              = CompleteLines(SubSeq(file, last.pos + 1, last.size))

(***************************************************************************)
(* C2: a client that stays subscribed has received every complete line     *)
(* that was appended after its join, once every change notification has    *)
(* been handled, in a file that was never rotated, whatever the other      *)
(* clients did.                                                            *)
(***************************************************************************)
C2_NoLineSkipped ==
    \A c \in DOMAIN hist :
        (Viewing(c) /\ NeverRotated /\ Settled) =>
            Range(LinesSince(file, hist[c].size)) \subseteq hist[c].got

(***************************************************************************)
(* C5: right after every assignment to the cursor, by a join, a growth or  *)
(* a rotation, 0 <= cursor <= the size of the file at that moment.         *)
(***************************************************************************)
C5_CursorWithinFile ==
    CursorAssigned => (0 <= filePosition /\ filePosition <= Len(file))

(***************************************************************************)
(* C6: a join that finds the cursor already assigned leaves it as it is;   *)
(* a join that finds it unassigned sets it to the size of the file.        *)
(***************************************************************************)
C6_JoinKeepsAssignedCursor ==
    last.op = "subscribe:stat" =>
        filePosition = (IF last.primed THEN last.pos ELSE last.size)

(***************************************************************************)
(* C7: the logs:initial of a join holds the last complete line that the    *)
(* file has when the join sets the cursor, and no complete line that the   *)
(* file holds at that moment (within the last 200) is missing from both    *)
(* the snapshot and the logs:new events that follow.                       *)
(***************************************************************************)
C7_SnapshotReachesCursor ==
    /\ (/\ last.op = "subscribe:stat"
        /\ last.events[1].to # {}
        /\ CompleteLines(file) # <<>>) =>
          CompleteLines(file)[Len(CompleteLines(file))]
             \in Range(last.events[1].lines)
    /\ \A c \in DOMAIN hist :
          (Viewing(c) /\ NeverRotated /\ Settled) =>
              Range(SliceLast(CompleteLines(SubSeq(file, 1, hist[c].size)),
                              SnapshotCount))
                 \subseteq hist[c].got

(***************************************************************************)
(* C8: no logs:initial, logs:new or logs:rotated reaches a client whose    *)
(* unsubscribe:logs or disconnect has been handled and which has not       *)
(* subscribed again: every event reaches subscribed clients only.          *)
(***************************************************************************)
C8_NoEventAfterLeaving ==
    \A i \in 1..Len(last.events) :
        last.events[i].to \subseteq subscribedSockets

(***************************************************************************)
(* C10: the delta read publishes complete lines only: what follows the     *)
(* last newline of the file is not published as a line.                    *)
(***************************************************************************)
C10_NoUnterminatedLine ==
    last.op = "change:read" =>
        PublishedLines = CompleteLines(BytesFrom(file, last.pos))

(***************************************************************************)
(* C11: the clients that are members of the room over the same period,     *)
(* that is since the members of the room last changed, have received the   *)
(* same sequence of logs:new and logs:rotated events, in the same order.   *)
(***************************************************************************)
C11_SameSequenceForMembers ==
    \A c \in DOMAIN inbox : \A d \in DOMAIN inbox :
        (c \in room /\ d \in room) => inbox[c] = inbox[d]

\* two members have received a logs:new and then a logs:rotated
C11_Witness ==
    /\ room = {"c1", "c2"}
    /\ Len(inbox["c1"]) = 2
    /\ inbox["c1"][1].type = "logs:new"
    /\ inbox["c1"][2].type = "logs:rotated"
    /\ inbox["c2"] = inbox["c1"]

(***************************************************************************)
(* C12: a change handler whose fs.stat or whose delta read fails publishes *)
(* nothing, returns, and leaves the cursor as it found it.                 *)
(***************************************************************************)
C12_FailureLeavesCursor ==
    last.op \in {"change:stat:failed", "change:read:failed"} =>
        /\ last.events = <<>>
        /\ last.next = "done"
        /\ filePosition = last.pos

(***************************************************************************)
(* C13: the handler of unsubscribe:logs or of disconnect, run for a client *)
(* that is not subscribed (it has left before, or it never subscribed),    *)
(* leaves the subscriber set, the membership of every other client and the *)
(* cursor as they were; run for any client, it leaves the membership of    *)
(* the others and the cursor as they were.                                 *)
(***************************************************************************)
C13_LeavingAgainChangesNothing ==
    last.op \in {"unsubscribe:logs", "disconnect"} =>
        /\ filePosition = last.pos
        /\ room \ {last.who} = last.members \ {last.who}
        /\ subscribedSockets \ {last.who} = last.subs \ {last.who}
        /\ last.who \notin last.subs =>
              /\ subscribedSockets = last.subs
              /\ room = last.members

\* unsubscribe:logs was handled for a client that was not subscribed while
\* another client was, with the cursor assigned
C13_Witness ==
    /\ last.op = "unsubscribe:logs"
    /\ last.who \notin last.subs
    /\ last.subs # {}
    /\ last.members # {}
    /\ last.pos > 0

(***************************************************************************)
(* C14: a save or restore that reports success has created, before it      *)
(* touched config.yml, a backup that holds config.yml as it was right      *)
(* before the mutation; a request whose backup could not be created does   *)
(* not touch config.yml.                                                   *)
(***************************************************************************)
C14_BackupHoldsReplacedConfig ==
    \A h \in DOMAIN requests :
        /\ (requests[h].pc = "done" /\ requests[h].ok) =>
              /\ requests[h].stamp > 0
              /\ requests[h].stamp \in DOMAIN backupDir =>
                    backupDir[requests[h].stamp] = requests[h].replaced
        /\ requests[h].stamp = 0 => requests[h].replaced = NoFile

(***************************************************************************)
(* C15: save(content) with content that yaml.load rejects returns          *)
(* success = false at once, and config.yml and the set of backup files are *)
(* what the request found.                                                 *)
(***************************************************************************)
C15_InvalidSaveTouchesNothing ==
    \A h \in DOMAIN requests :
        (requests[h].op = "save" /\ ~YamlLoads(requests[h].content)) =>
            /\ requests[h].pc = "done"
            /\ ~requests[h].ok
            /\ requests[h].stamp = 0
            /\ configYml = requests[h].found
            /\ DOMAIN backupDir = requests[h].kept

\* an invalid document was refused while config.yml and backups existed
C15_Witness ==
    \E h \in DOMAIN requests :
        /\ requests[h].op = "save"
        /\ ~YamlLoads(requests[h].content)
        /\ requests[h].pc = "done"
        /\ configYml \notin {NoFile, Installed}
        /\ Cardinality(DOMAIN backupDir) >= 2

(***************************************************************************)
(* C16: with the requests handled one at a time, each createBackup takes   *)
(* the next time as its name, so the backups made so far are 1..now.       *)
(* After every completed request at most maxBackups backup files exist and *)
(* they are the newest ones made; after maxBackups + 1 backups the oldest  *)
(* one is the one that is gone.                                            *)
(***************************************************************************)
C16_NewestBackupsRemain ==
    (\A h \in DOMAIN requests : requests[h].pc \in {"idle", "done"}) =>
        /\ Cardinality(DOMAIN backupDir) <= maxBackups
        /\ DOMAIN backupDir = {s \in 1..now : s > now - maxBackups}

\* eleven saves in a row, all successful: ten backups remain, the first is
\* gone
C16_Witness ==
    /\ now = maxBackups + 1
    /\ quota = MaxRequests - (maxBackups + 1)
    /\ requests["r1"].pc = "done"
    /\ requests["r1"].op = "save"
    /\ requests["r1"].ok
    /\ \A s \in DOMAIN backupDir : s > 1 => backupDir[s] = <<"a", "k">>
    /\ Cardinality(DOMAIN backupDir) = maxBackups
    /\ 1 \notin DOMAIN backupDir

(***************************************************************************)
(* C17: config.yml always holds a complete document, the installed one or  *)
(* one that a request supplied, never a part of one; and after a save has  *)
(* reported success it holds the document of that save.                    *)
(***************************************************************************)
C17_ConfigNeverTorn ==
    /\ configYml \in {NoFile, Installed}
                        \cup UNION {Drafts[h] : h \in DOMAIN Drafts}
    /\ \A h \in DOMAIN requests :
          (requests[h].pc = "done" /\ requests[h].ok
             /\ requests[h].op = "save") =>
              configYml = requests[h].content

(***************************************************************************)
(* Vocabulary of the properties of getLastRun.                             *)
(***************************************************************************)
\* the last 2000 lines of meta.log
Window == SliceLast(metaLog, WindowCount)

\* the indices of the lines of the window that include 'Starting Run'
Starts == {i \in 1..Len(Window) : Window[i].starting}

\* the index of the last of them (0 when there is none)
LastStart == IF Starts = {} THEN 0
             ELSE CHOOSE i \in Starts : \A j \in Starts : j <= i

\* the indices of the 'Finished Run' lines after the last start line
FinishedAfter == {j \in (LastStart + 1)..Len(Window) : Window[j].finished}

(***************************************************************************)
(* C18: a Run Record that getLastRun returns has the timestamp of the last *)
(* 'Starting Run' line of the window as startTime; its status is           *)
(* 'completed', with endTime from a 'Finished Run' line, exactly when such *)
(* a line follows that start line, and else 'running' with endTime = null  *)
(* and duration = null.  Its status is never 'failed'.                     *)
(***************************************************************************)
C18_ReportsMostRecentRun ==
    lastRun.status \notin {"unasked", "null"} =>
        /\ LastStart > 0
        /\ lastRun.startTime = Window[LastStart].timestamp
        /\ lastRun.status \in {"completed", "running"}
        /\ (lastRun.status = "completed") <=> (FinishedAfter # {})
        /\ lastRun.status = "completed" =>
              \E j \in FinishedAfter :
                  Window[j].matches /\ lastRun.endTime = Window[j].timestamp
        /\ lastRun.status = "running" =>
              (lastRun.endTime = null /\ lastRun.duration = "null")

(***************************************************************************)
(* C19: getLastRun returns null exactly when no line of the window         *)
(* includes 'Starting Run', whether or not the lines match LOG_PATTERN.    *)
(***************************************************************************)
C19_NullIffNoStart ==
    lastRun.status # "unasked" => ((lastRun = NoRun) <=> (Starts = {}))

(***************************************************************************)
(* C20: for a completed run with endTime >= startTime and diffMs their     *)
(* difference, duration is '<m>m <s>s' with m = floor(diffMs / 60000) and  *)
(* s = floor((diffMs mod 60000) / 1000); 0 <= s < 60 and                   *)
(* 60 * m + s = floor(diffMs / 1000).                                      *)
(***************************************************************************)
C20_DurationIsFloored ==
    (lastRun.status = "completed" /\ lastRun.endTime >= lastRun.startTime) =>
        LET diffMs == lastRun.endTime - lastRun.startTime
            m == diffMs \div 60000
            s == (diffMs % 60000) \div 1000
        IN  /\ lastRun.duration = ToString(m) \o "m " \o ToString(s) \o "s"
            /\ 0 <= s /\ s < 60
            /\ 60 * m + s = diffMs \div 1000

\* start at 0 ms, finish at 330500 ms: '5m 30s'
C20_Witness ==
    /\ lastRun.status = "completed"
    /\ lastRun.endTime - lastRun.startTime = 330500
    /\ lastRun.duration = "5m 30s"

(***************************************************************************)
(* The tail reads.                                                         *)
(***************************************************************************)
Min(a, b) == IF a <= b THEN a ELSE b

\* the last n elements of s, for n at most Len(s)
LastOf(s, n) == SubSeq(s, Len(s) - n + 1, Len(s))

\* the lines that a tail read of f with count n is to return
TailOf(f, n) ==
    IF f = NoLog
    THEN <<>>
    ELSE LastOf(SplitLines(f), Min(n, Len(SplitLines(f))))

\* C21: a tail read with count N >= 0 returns exactly the last
\* min(N, total) lines of the file, in file order, and the empty sequence
\* for an empty or missing file; this holds of LogService.readLines and of
\* readLastLines alike.
C21_TailIsLastMinLines ==
    /\ "service" \in tailLines.read
            => tailLines.service = TailOf(tailFile, tailCount)
    /\ "stream" \in tailLines.read
            => tailLines.stream = TailOf(tailFile, tailCount)

(***************************************************************************)
(* validate.                                                               *)
(***************************************************************************)
\* an item is missing when its key is absent or holds nothing: null, the
\* empty string, false or 0
Missing(v) == v \in {"undefined", "null", "empty", "false"}

\* the messages that apply to a document that is a mapping
Applicable(doc) ==
    (IF Missing(doc.plex.is)
     THEN {"Missing required section: plex"}
     ELSE {m \in {"Missing plex.url"} : Missing(doc.plex.url)}
          \cup {m \in {"Missing plex.token"} : Missing(doc.plex.token)})
    \cup {m \in {"Missing required section: libraries"} :
              Missing(doc.libraries)}

\* C22: for a content that parses to a mapping, validate returns the
\* complete set of applicable errors, one message per missing item among
\* plex (or plex.url and plex.token when plex is present) and libraries, and
\* valid is true exactly when there is no error.
C22_ValidateReportsEveryError ==
    (validation # Unvalidated /\ document.parsed = "mapping")
        => /\ Range(validation.errors) = Applicable(document)
           /\ Len(validation.errors) = Cardinality(Applicable(document))
           /\ validation.valid <=> validation.errors = <<>>

\* a mapping without url, token and libraries was validated
C22_Witness ==
    /\ validation # Unvalidated
    /\ document.parsed = "mapping"
    /\ Len(validation.errors) = 3

(***************************************************************************)
(* The container operations.                                               *)
(***************************************************************************)
\* C23: isJobActive is derived from the time meta.log was last modified:
\* it is true whenever the file was modified within the last 60 seconds,
\* whatever the running flag of the container is.
C23_ActiveWhenLogIsFresh ==
    (call.op = "status" /\ call.pc = "done" /\ ~call.rejected
         /\ logAge < 60000)
        => call.status.isJobActive

\* C24: a container operation never throws past the service: when the
\* runtime call fails, run, stop and restart return success = false with
\* the message of the error, verbatim, and getStatus returns the state
\* 'unknown' with that message as error; the routes of run, stop and
\* restart answer 200 exactly when success is true.
C24_FailuresAreReturned ==
    call.pc = "done"
        => /\ call.answer \in {200, 500}
           /\ call.op # "status"
                  => /\ call.answer = 200 <=> call.result.success
                     /\ call.rejected <=> ~call.result.success
                     /\ (call.rejected /\ call.thrown.isError)
                            => call.result.message = call.thrown.message
           /\ (call.op = "status" /\ call.rejected)
                  => /\ call.status.containerState = "unknown"
                     /\ call.thrown.isError
                            => call.status.error = call.thrown.message

\* the exec of a run was rejected with an Error and the route answered 500
C24_Witness ==
    /\ call.op = "run" /\ call.pc = "done"
    /\ call.calls = <<"inspect", "exec">>
    /\ call.rejected /\ call.thrown.isError
    /\ call.answer = 500

\* C28: triggerRun inspects the container and then performs exactly one
\* action of the runtime: it starts the container exactly when the inspect
\* reported it not running ('Container started') and launches a detached
\* exec exactly when it reported it running ('Kometa run triggered'); a
\* triggerRun that succeeds never does both and never does neither.
C28_RunDoesExactlyOneAction ==
    (call.op = "run" /\ call.pc = "done" /\ call.result.success)
        => \/ /\ ~call.inspected.Running
              /\ call.calls = <<"inspect", "start">>
              /\ call.result.message = "Container started"
           \/ /\ call.inspected.Running
              /\ call.calls = <<"inspect", "exec", "exec.start">>
              /\ call.result.message = "Kometa run triggered"

\* a run of a running container has launched its exec
C28_Witness ==
    /\ call.op = "run" /\ call.pc = "done" /\ call.result.success
    /\ call.inspected.Running
    /\ call.calls = <<"inspect", "exec", "exec.start">>

(***************************************************************************)
(* The receivers of the events.                                            *)
(***************************************************************************)
\* the clients whose socket is connected
Connected == {c \in DOMAIN sock : sock[c] = "open"}

\* C25: logs:new and logs:rotated reach only clients that are members of
\* the room 'logs' when they are published, logs:initial reaches only the
\* client whose subscribe:logs produced it, and every periodic
\* status:update reaches every connected client, subscribed or not.
C25_EventsReachTheirAudience ==
    \A i \in 1..Len(last.events) :
        LET ev == last.events[i]
        IN  /\ ev.type \in {"logs:new", "logs:rotated"} => ev.to \subseteq room
            /\ ev.type = "logs:initial" => ev.to \subseteq {last.who}
            /\ ev.type = "status:update" => ev.to = Connected

\* a status:update has reached a member of the room and a connected client
\* that is none
C25_Witness ==
    /\ last.op = "status:update"
    /\ \E c \in room, d \in Connected \ room :
           {c, d} \subseteq last.events[1].to

(***************************************************************************)
(* The cursor across the awaits of the handlers.                           *)
(***************************************************************************)
\* the change handlers that await their delta read
Reading == {h \in BagToSet(changes) : h.pc = "read"}

\* C26: no two handlers interleave their cursor mutation.  While a change
\* handler that chose its read offset from the cursor awaits its read, no
\* other handler writes the cursor; the size that a change handler writes
\* to the cursor is the size of the file at the time of the write; and no
\* two handlers read from the same cursor value.
C26_CursorMutationsDoNotInterleave ==
    /\ \A h \in Reading : filePosition = h.from
    /\ last.op = "change:read" => last.size = Len(file)
    /\ \A h \in Reading :
           /\ CopiesIn(h, changes) = 1
           /\ \A g \in Reading \ {h} : g.from # h.from

(***************************************************************************)
(* C27: restore(filename) of a backup that exists when the request starts  *)
(* returns success and leaves config.yml with the content of that backup,  *)
(* and the backup still exists afterwards, whichever of one to ten         *)
(* existing backups is restored.                                           *)
(***************************************************************************)
C27_RestoreOfExistingBackupSucceeds ==
    \A h \in DOMAIN requests :
        LET r == requests[h]
        IN  (r.op = "restore" /\ r.pc = "done" /\ r.name # 0)
                => /\ r.ok
                   /\ r.name \in DOMAIN backupDir
                   /\ configYml = backupDir[r.name]

====
